---------------------------- MODULE Spec2Model ----------------------------
(***************************************************************************)
(* Bose-Einstein / Planck spectrum scripts: src/4D.py (Streamlit app),     *)
(* src/pengembangan.py (animation script), src/simulasi.py (fit and error  *)
(* metrics).                                                               *)
(*                                                                         *)
(* All three scripts compute with numpy float64 arrays.  A float is        *)
(* modelled as a binary floating-point number with the float64 exponent    *)
(* range (overflow above 2^1023, underflow below 2^-1074), the IEEE        *)
(* special values (signed zero, +/-inf, nan) and numpy's non-trapping      *)
(* arithmetic (x/0 = inf, 0/0 = nan, no exception), but with a 15-bit      *)
(* mantissa instead of 53 bits and rounding toward zero, because TLC       *)
(* integers are 32 bits wide.  Integers up to 32767 are exact.             *)
(***************************************************************************)
EXTENDS Integers, Sequences, FiniteSets, TLC

(***************************************************************************)
(* numpy float64, reduced mantissa                                         *)
(***************************************************************************)
MantBits == 15
Mant == 2^MantBits
Half == 2^(MantBits - 1)
EMax == 1023
EMin == -1074

NaN == [c |-> "nan", s |-> 1, m |-> 0, e |-> 0]
Inf(s) == [c |-> "inf", s |-> s, m |-> 0, e |-> 0]
Zero(s) == [c |-> "fin", s |-> s, m |-> 0, e |-> 0]

\* the float of sign s and magnitude m * 2^e, mantissa normalised to
\* [Half, Mant), overflowing to inf and underflowing to zero
RECURSIVE Norm(_, _, _)
Norm(s, m, e) ==
    IF m = 0 THEN Zero(s)
    ELSE IF m >= Mant THEN Norm(s, m \div 2, e + 1)
    ELSE IF m < Half THEN Norm(s, m * 2, e - 1)
    ELSE IF e + MantBits - 1 > EMax THEN Inf(s)
    ELSE IF e + MantBits - 1 < EMin THEN Zero(s)
    ELSE [c |-> "fin", s |-> s, m |-> m, e |-> e]

FromInt(n) == IF n < 0 THEN Norm(-1, -n, 0) ELSE Norm(1, n, 0)
One == FromInt(1)
Two == FromInt(2)

IsNaN(a) == a.c = "nan"
IsInf(a) == a.c = "inf"
IsZero(a) == a.c = "fin" /\ a.m = 0
IsFinite(a) == a.c = "fin"

FNeg(a) == IF IsNaN(a) THEN NaN ELSE [a EXCEPT !.s = -a.s]
FAbs(a) == IF IsNaN(a) THEN NaN ELSE [a EXCEPT !.s = 1]

FMul(a, b) ==
    IF IsNaN(a) \/ IsNaN(b) THEN NaN
    ELSE IF (IsInf(a) /\ IsZero(b)) \/ (IsZero(a) /\ IsInf(b)) THEN NaN
    ELSE IF IsInf(a) \/ IsInf(b) THEN Inf(a.s * b.s)
    ELSE Norm(a.s * b.s, a.m * b.m, a.e + b.e)

FDiv(a, b) ==
    IF IsNaN(a) \/ IsNaN(b) THEN NaN
    ELSE IF (IsInf(a) /\ IsInf(b)) \/ (IsZero(a) /\ IsZero(b)) THEN NaN
    ELSE IF IsInf(a) THEN Inf(a.s * b.s)
    ELSE IF IsInf(b) THEN Zero(a.s * b.s)
    ELSE IF IsZero(b) THEN Inf(a.s * b.s)
    ELSE Norm(a.s * b.s, (a.m * Mant) \div b.m, a.e - b.e - MantBits)

\* finite, non-zero a and b with a.e >= b.e
AddAligned(a, b) ==
    LET d == a.e - b.e
        A == a.m * Mant
        B == IF d <= MantBits THEN b.m * 2^(MantBits - d)
             ELSE IF d <= 2 * MantBits THEN b.m \div 2^(d - MantBits)
             ELSE 0
        sum == a.s * A + b.s * B
    IN  IF sum = 0 THEN Zero(1)
        ELSE IF sum < 0 THEN Norm(-1, -sum, a.e - MantBits)
        ELSE Norm(1, sum, a.e - MantBits)

FAdd(a, b) ==
    IF IsNaN(a) \/ IsNaN(b) THEN NaN
    ELSE IF IsInf(a) /\ IsInf(b) THEN (IF a.s = b.s THEN a ELSE NaN)
    ELSE IF IsInf(a) THEN a
    ELSE IF IsInf(b) THEN b
    ELSE IF IsZero(a) /\ IsZero(b) THEN (IF a.s = -1 /\ b.s = -1 THEN Zero(-1) ELSE Zero(1))
    ELSE IF IsZero(a) THEN b
    ELSE IF IsZero(b) THEN a
    ELSE IF a.e >= b.e THEN AddAligned(a, b)
    ELSE AddAligned(b, a)

FSub(a, b) == FAdd(a, FNeg(b))

SignOf(a) == IF IsZero(a) THEN 0 ELSE a.s

\* |a| < |b| for a, b not nan
MagLt(a, b) ==
    IF IsInf(a) THEN FALSE
    ELSE IF IsInf(b) THEN TRUE
    ELSE IF IsZero(b) THEN FALSE
    ELSE IF IsZero(a) THEN TRUE
    ELSE a.e < b.e \/ (a.e = b.e /\ a.m < b.m)

\* the IEEE comparisons: every comparison with a nan is false
FLt(a, b) ==
    /\ ~IsNaN(a)
    /\ ~IsNaN(b)
    /\ \/ SignOf(a) < SignOf(b)
       \/ SignOf(a) = 1 /\ SignOf(b) = 1 /\ MagLt(a, b)
       \/ SignOf(a) = -1 /\ SignOf(b) = -1 /\ MagLt(b, a)
FLe(a, b) == ~IsNaN(a) /\ ~IsNaN(b) /\ ~FLt(b, a)
FEq(a, b) == FLe(a, b) /\ FLe(b, a)

RECURSIVE FPow(_, _)
FPow(a, n) == IF n = 1 THEN a ELSE FMul(FPow(a, n - 1), a)

\* np.exp: e^x = 2^n * e^r with x = n ln 2 + r, 0 <= r < ln 2, e^r by its
\* Taylor series in fixed point (scale Mant)
Ln2Fix == 22713
RECURSIVE TaylorSum(_, _, _)
TaylorSum(r, term, j) ==
    IF term = 0 THEN 0
    ELSE term + TaylorSum(r, (term * r) \div (Mant * j), j + 1)

\* x * Mant as an integer, for finite |x| < Mant
ToFix(x) ==
    LET sh == x.e + MantBits
        mag == IF sh >= 0 THEN x.m * 2^sh
               ELSE IF -sh <= 2 * MantBits THEN x.m \div 2^(-sh)
               ELSE 0
    IN  x.s * mag

FExp(x) ==
    IF IsNaN(x) THEN NaN
    ELSE IF IsInf(x) THEN (IF x.s = 1 THEN Inf(1) ELSE Zero(1))
    ELSE IF IsZero(x) THEN One
    ELSE IF x.e > 0 THEN (IF x.s = 1 THEN Inf(1) ELSE Zero(1))
    ELSE LET X == ToFix(x)
             n == X \div Ln2Fix
             r == X - n * Ln2Fix
         IN  Norm(1, TaylorSum(r, Mant, 1), n - MantBits)

\* np.sqrt
RECURSIVE ISqrtIn(_, _, _)
ISqrtIn(n, lo, hi) ==
    IF lo >= hi THEN lo
    ELSE LET mid == (lo + hi + 1) \div 2
         IN  IF mid * mid <= n THEN ISqrtIn(n, mid, hi) ELSE ISqrtIn(n, lo, mid - 1)

FSqrt(a) ==
    IF IsNaN(a) THEN NaN
    ELSE IF IsZero(a) THEN a
    ELSE IF a.s = -1 THEN NaN
    ELSE IF IsInf(a) THEN a
    ELSE LET sh == IF a.e % 2 = 0 THEN MantBits + 1 ELSE MantBits
         IN  Norm(1, ISqrtIn(a.m * 2^sh, 0, 46340), (a.e - sh) \div 2)

(***************************************************************************)
(* Arrays (numpy one-dimensional arrays are sequences)                     *)
(***************************************************************************)
RECURSIVE FSum(_)
FSum(xs) == IF xs = <<>> THEN Zero(1) ELSE FAdd(FSum(SubSeq(xs, 1, Len(xs) - 1)), xs[Len(xs)])

FMean(xs) == FDiv(FSum(xs), FromInt(Len(xs)))

\* ndarray.max(): a nan anywhere makes the maximum nan
RECURSIVE FMax(_)
FMax(xs) ==
    IF Len(xs) = 1 THEN xs[1]
    ELSE LET rest == FMax(SubSeq(xs, 1, Len(xs) - 1))
             x == xs[Len(xs)]
         IN  IF IsNaN(rest) \/ IsNaN(x) THEN NaN
             ELSE IF FLt(rest, x) THEN x ELSE rest

\* ndarray.argmin(): the first index of the minimum (1-based here), the
\* first nan when there is one
RECURSIVE ArgMinFrom(_, _, _)
ArgMinFrom(xs, j, best) ==
    IF j > Len(xs) THEN best
    ELSE IF IsNaN(xs[best]) THEN best
    ELSE IF IsNaN(xs[j]) \/ FLt(xs[j], xs[best]) THEN ArgMinFrom(xs, j + 1, j)
    ELSE ArgMinFrom(xs, j + 1, best)

ArgMin(xs) == ArgMinFrom(xs, 2, 1)

\* np.linspace(start, stop, num) for integers start, stop and num > 1
Linspace(start, stop, num) ==
    LET step == FDiv(FromInt(stop - start), FromInt(num - 1))
    IN  [i \in 1..num |->
            IF i = num THEN FromInt(stop)
            ELSE FAdd(FMul(FromInt(i - 1), step), FromInt(start))]

(***************************************************************************)
(* Physical constants (scipy.constants h, c, k) and literals               *)
(***************************************************************************)
Fl(m, e) == [c |-> "fin", s |-> 1, m |-> m, e |-> e]
H == Fl(28184, -125)          \* 6.62607015e-34
C == Fl(18297, 14)            \* 299792458.0
K == Fl(17091, -90)           \* 1.380649e-23
NanoToMeter == Fl(17592, -44) \* 1e-9
MeterToNano == Fl(30517, 15)  \* 1e9
WienB == Fl(24310, -23)       \* 2.898e-3

(***************************************************************************)
(* bose_einstein(wavelength, T), one element of the wavelength array       *)
(***************************************************************************)
bose_einstein(wl, T) ==
    LET numerator == FDiv(FMul(FMul(Two, H), FPow(C, 2)), FPow(wl, 5))
        denominator == FSub(FExp(FDiv(FMul(H, C), FMul(FMul(wl, K), T))), One)
    IN  FDiv(numerator, denominator)

\* bose_einstein over a wavelength array
Spectrum(wls, T) == [j \in 1..Len(wls) |-> bose_einstein(wls[j], T)]

\* Cooling with the decay's sign lost: exp(+k_cool * t)
CoolingGrowth(T0, T_env, k_cool, t) ==
    FAdd(FromInt(T_env), FMul(FromInt(T0 - T_env), FExp(FMul(k_cool, t))))

\* Cooling without the ambient term
CoolingNoAmbient(T0, T_env, k_cool, t) ==
    FMul(FromInt(T0 - T_env), FExp(FMul(FNeg(k_cool), t)))

\* Cooling with the excess subtracted from T_env
CoolingBelow(T0, T_env, k_cool, t) ==
    FSub(FromInt(T_env), FMul(FromInt(T0 - T_env), FExp(FMul(FNeg(k_cool), t))))

\* T_env + (T0 - T_env) * np.exp(-k_cool * t)
Cooling(T0, T_env, k_cool, t) ==
    FAdd(FromInt(T_env),
         FMul(FromInt(T0 - T_env), FExp(FMul(FNeg(k_cool), t))))

(***************************************************************************)
(* Error metrics of simulasi.py                                            *)
(***************************************************************************)
rmse(y_true, y_pred) ==
    FSqrt(FMean([j \in 1..Len(y_true) |->
                    FPow(FSub(y_true[j], y_pred[j]), 2)]))

mape(y_true, y_pred) ==
    FMul(FMean([j \in 1..Len(y_true) |->
                   FAbs(FDiv(FSub(y_true[j], y_pred[j]), y_true[j]))]),
         FromInt(100))

chi_square(y_true, y_pred) ==
    FSum([j \in 1..Len(y_true) |->
             FDiv(FPow(FSub(y_true[j], y_pred[j]), 2), y_pred[j])])

(***************************************************************************)
(* Bounds of the model: the scripts use 200 wavelengths and 80 time        *)
(* samples; the model keeps both linspace calls and shortens them.         *)
(***************************************************************************)
NGrid == 3
NSteps == 4

(***************************************************************************)
(* Parameters.  T0, T_env and the duration are integers, k_cool is given   *)
(* in hundredths (0.25 is 25).                                             *)
(***************************************************************************)
Par(T0, T_env, k100, dur) == [T0 |-> T0, T_env |-> T_env, k100 |-> k100, dur |-> dur]

\* st.slider values of 4D.py: the ends and the default of the temperature
\* sliders, and pairs (k_cool, waktu_akhir) with k_cool * waktu_akhir <= 5,
\* for which the 15-bit mantissa resolves the decaying term of the cooling
\* law next to T_env, as float64 does for every slider value
SliderT0 == {1000, 6000, 10000}
SliderTenv == {100, 300, 1000}
SliderRate == {<<5, 5>>, <<25, 5>>, <<100, 5>>, <<25, 15>>, <<5, 30>>}
AppParams ==
    {Par(a, b, kd[1], kd[2]) : a \in SliderT0, b \in SliderTenv, kd \in SliderRate}

\* every value of the two temperature sliders (min, max, step), and the
\* ends and the default of the k_cool and waktu_akhir sliders
SliderT0All == {1000 + 500 * n : n \in 0..18}
SliderTenvAll == {100 + 50 * n : n \in 0..18}
SliderRateAll == {<<k, d>> : k \in {5, 25, 100}, d \in {5, 15, 30}}
AppParamsAll ==
    {Par(a, b, kd[1], kd[2]) : a \in SliderT0All, b \in SliderTenvAll, kd \in SliderRateAll}

\* the parameter block of pengembangan.py: the values as written, and
\* other assignments of the same block (warming, a fast decay, a cold body)
ScriptDefault == Par(6000, 300, 25, 15)
ScriptParams ==
    {ScriptDefault, Par(300, 6000, 25, 15), Par(500, 500, 25, 15),
     Par(6000, 300, 1000, 15), Par(20, 10, 25, 15)}

\* arguments bose_einstein is applied to as a function
BoseWl == {FNeg(FMul(FromInt(500), NanoToMeter)), Zero(1), FMul(FromInt(500), NanoToMeter)}
BoseT == {FromInt(-1000), Zero(1), FromInt(1000)}

\* arguments the error metrics are applied to as functions
MetricVals == {Zero(1), One, Two}
MetricArgs == {<<a, b>> : a \in MetricVals, b \in MetricVals}

\* standard-normal draws of np.random.normal and temperatures the fit
\* may return
NoiseDraws == {-1, 0, 1}
T_true == 4500
T_guess == 3000
FitT == {T_guess, 4400, T_true}

None == <<>>

VARIABLES
    prog,           \* which script runs, or which function is applied
    pc,             \* the statement the script is at
    par,            \* T0, T_env, k_cool, waktu_akhir
    wl_nm, wl_m, time_steps,
    T_t,            \* temperature series
    I_time,         \* intensity field, a sequence of rows
    I_max,          \* I_time.max() as the normalisation read it
    lambda_max_nm,  \* Wien peak wavelengths
    idx_peak,       \* idx of every iteration of the peak loop
    I_peak,
    be_wl,          \* wavelength array of the latest bose_einstein call
    I_theory,       \* noiseless spectrum of simulasi.py
    I_exp,          \* noisy data of simulasi.py
    result,         \* lmfit ModelResult: success, T, best_fit
    report,         \* rmse, mape, chi_square as printed
    args, ret       \* arguments and return value of a function applied alone

vars == <<prog, pc, par, wl_nm, wl_m, time_steps, T_t, I_time, I_max,
          lambda_max_nm, idx_peak, I_peak, be_wl, I_theory, I_exp, result, report,
          args, ret>>

Blank ==
    /\ wl_nm = None /\ wl_m = None /\ time_steps = None /\ T_t = None
    /\ I_time = None /\ I_max = None /\ lambda_max_nm = None
    /\ idx_peak = None /\ I_peak = None /\ be_wl = None /\ I_theory = None /\ I_exp = None
    /\ result = None /\ report = None /\ ret = None

Init ==
    /\ Blank
    /\ \/ prog = "4D" /\ pc = "grid" /\ par \in AppParams /\ args = None
       \/ prog = "pengembangan" /\ pc = "grid" /\ par \in ScriptParams /\ args = None
       \/ prog = "simulasi" /\ pc = "data" /\ par = None /\ args = None
       \/ prog = "bose_einstein" /\ pc = "call" /\ par = None
            /\ args \in {<<w, T>> : w \in BoseWl, T \in BoseT}
       \/ prog \in {"rmse", "mape", "chi_square"} /\ pc = "call" /\ par = None
            /\ args \in {<<yt, yp>> : yt \in MetricArgs, yp \in MetricArgs}

k_cool == FDiv(FromInt(par.k100), FromInt(100))

(***************************************************************************)
(* 4D.py and pengembangan.py                                               *)
(***************************************************************************)
\* wl_nm, wl_m, time_steps (4D.py 50-52, pengembangan.py 29-35)
Grid ==
    /\ pc = "grid"
    /\ wl_nm' = Linspace(400, 800, NGrid)
    /\ wl_m' = [j \in 1..NGrid |-> FMul(wl_nm'[j], NanoToMeter)]
    /\ time_steps' = Linspace(0, par.dur, NSteps)
    /\ pc' = "cooling"
    /\ UNCHANGED <<prog, par, T_t, I_time, I_max, lambda_max_nm, idx_peak,
                   I_peak, be_wl, I_theory, I_exp, result, report, args, ret>>

\* T_t (4D.py 55, pengembangan.py 38)
NewtonCooling ==
    /\ pc = "cooling"
    /\ T_t' = [i \in 1..NSteps |-> Cooling(par.T0, par.T_env, k_cool, time_steps[i])]
    /\ I_time' = <<>>
    /\ pc' = "spectrum"
    /\ UNCHANGED <<prog, par, wl_nm, wl_m, time_steps, I_max, lambda_max_nm,
                   idx_peak, I_peak, be_wl, I_theory, I_exp, result, report, args, ret>>

\* one iteration of "for T in T_t" (4D.py 58-60, pengembangan.py 44-46)
SpectrumRow ==
    /\ pc = "spectrum"
    /\ Len(I_time) < NSteps
    /\ LET T == T_t[Len(I_time) + 1]
       IN  /\ be_wl' = wl_m
           /\ I_time' = Append(I_time, Spectrum(wl_m, T))
    /\ pc' = IF Len(I_time') = NSteps THEN "normalize" ELSE "spectrum"
    /\ UNCHANGED <<prog, par, wl_nm, wl_m, time_steps, T_t, I_max, lambda_max_nm,
                   idx_peak, I_peak, I_theory, I_exp, result, report, args, ret>>

\* the maximum of a two-dimensional array
FieldMax(field) == FMax([i \in 1..Len(field) |-> FMax(field[i])])

\* I_time /= I_time.max()
Normalized(field) ==
    LET top == FieldMax(field)
    IN  [i \in 1..Len(field) |->
            [j \in 1..Len(field[i]) |-> FDiv(field[i][j], top)]]

\* I_time = np.array(I_time); I_time /= I_time.max() (4D.py 61-62,
\* pengembangan.py 47-48): no test of the maximum, no exception
Normalize ==
    /\ pc = "normalize"
    /\ I_max' = FieldMax(I_time)
    /\ I_time' = Normalized(I_time)
    /\ pc' = "plot"
    /\ UNCHANGED <<prog, par, wl_nm, wl_m, time_steps, T_t, lambda_max_nm,
                   idx_peak, I_peak, be_wl, I_theory, I_exp, result, report, args, ret>>

\* the charts read I_time (4D.py 64-170, pengembangan.py 53-165)
Plot ==
    /\ pc = "plot"
    /\ pc' = IF prog = "4D" THEN "wien" ELSE "done"
    /\ UNCHANGED <<prog, par, wl_nm, wl_m, time_steps, T_t, I_time, I_max,
                   lambda_max_nm, idx_peak, I_peak, be_wl, I_theory, I_exp, result,
                   report, args, ret>>

\* WienPeak without the conversion to nanometers
WienPeakMeters(T) == FDiv(WienB, T)

\* lambda_max_m = 2.898e-3 / T_t; lambda_max_nm = lambda_max_m * 1e9
WienPeak(T) == FMul(FDiv(WienB, T), MeterToNano)

Wien ==
    /\ pc = "wien"
    /\ lambda_max_nm' = [i \in 1..NSteps |-> WienPeak(T_t[i])]
    /\ idx_peak' = <<>>
    /\ I_peak' = <<>>
    /\ pc' = "peak"
    /\ UNCHANGED <<prog, par, wl_nm, wl_m, time_steps, T_t, I_time, I_max,
                   be_wl, I_theory, I_exp, result, report, args, ret>>

\* NearestIdx without np.abs
NearestIdxSigned(grid, lam) == ArgMin([j \in 1..Len(grid) |-> FSub(grid[j], lam)])

\* np.abs(wl_nm - lambda_max_nm[i]).argmin()
NearestIdx(grid, lam) == ArgMin([j \in 1..Len(grid) |-> FAbs(FSub(grid[j], lam))])

\* one iteration of the peak loop (4D.py 181-183)
PeakRow ==
    /\ pc = "peak"
    /\ Len(I_peak) < NSteps
    /\ LET i == Len(I_peak) + 1
           idx == NearestIdx(wl_nm, lambda_max_nm[i])
       IN  /\ idx_peak' = Append(idx_peak, idx)
           /\ I_peak' = Append(I_peak, I_time[i][idx])
    /\ pc' = IF Len(I_peak') = NSteps THEN "done" ELSE "peak"
    /\ UNCHANGED <<prog, par, wl_nm, wl_m, time_steps, T_t, I_time, I_max,
                   lambda_max_nm, be_wl, I_theory, I_exp, result, report, args, ret>>

(***************************************************************************)
(* simulasi.py                                                             *)
(***************************************************************************)
\* synthetic data (simulasi.py 21-28); the draws of np.random.normal are
\* any of NoiseDraws, scaled by I_theory.max() * 0.05
SimData ==
    /\ prog = "simulasi" /\ pc = "data"
    /\ wl_nm' = Linspace(400, 800, NGrid)
    /\ wl_m' = [j \in 1..NGrid |-> FMul(wl_nm'[j], NanoToMeter)]
    /\ be_wl' = wl_m'
    /\ I_theory' = Spectrum(wl_m', FromInt(T_true))
    /\ \E z \in [1..NGrid -> NoiseDraws] :
          LET sigma == FMul(FMax(I_theory'), FDiv(FromInt(5), FromInt(100)))
          IN  I_exp' = [j \in 1..NGrid |->
                           FAdd(I_theory'[j], FMul(FromInt(z[j]), sigma))]
    /\ pc' = "plot_data"
    /\ UNCHANGED <<prog, par, time_steps, T_t, I_time, I_max, lambda_max_nm,
                   idx_peak, I_peak, result, report, args, ret>>

\* first figure (simulasi.py 34-42)
PlotData ==
    /\ pc = "plot_data"
    /\ pc' = "fit"
    /\ UNCHANGED <<prog, par, wl_nm, wl_m, time_steps, T_t, I_time, I_max,
                   lambda_max_nm, idx_peak, I_peak, be_wl, I_theory, I_exp,
                   result, report, args, ret>>

\* what model.fit returned: lmfit reports a fit that did not converge in
\* result.success and raises nothing
FitResult(ok, T) == [success |-> ok, T |-> T, best_fit |-> Spectrum(wl_m, FromInt(T))]

\* model.fit(I_exp, params, wavelength=wl_m) (simulasi.py 46-48): the
\* optimiser of lmfit ends converged, not converged, or raises ValueError on
\* a nan in the model's output
Fit ==
    /\ pc = "fit"
    /\ be_wl' = wl_m
    /\ \/ \E T \in FitT : result' = FitResult(TRUE, T) /\ pc' = "plot_fit"
       \/ \E T \in FitT : result' = FitResult(FALSE, T) /\ pc' = "plot_fit"
       \/ result' = None /\ pc' = "raised"
    /\ UNCHANGED <<prog, par, wl_nm, wl_m, time_steps, T_t, I_time, I_max,
                   lambda_max_nm, idx_peak, I_peak, I_theory, I_exp, report,
                   args, ret>>

\* print(result.fit_report()) and the second figure, which draws
\* result.best_fit (simulasi.py 50-62): result.success is never read
PlotFit ==
    /\ pc = "plot_fit"
    /\ pc' = "evaluate"
    /\ UNCHANGED <<prog, par, wl_nm, wl_m, time_steps, T_t, I_time, I_max,
                   lambda_max_nm, idx_peak, I_peak, be_wl, I_theory, I_exp,
                   result, report, args, ret>>

\* I_fit = result.best_fit and the three metrics (simulasi.py 75-79)
Evaluate ==
    /\ pc = "evaluate"
    /\ LET I_fit == result.best_fit
       IN  report' = [rmse |-> rmse(I_exp, I_fit),
                      mape |-> mape(I_exp, I_fit),
                      chi_square |-> chi_square(I_exp, I_fit)]
    /\ pc' = "done"
    /\ UNCHANGED <<prog, par, wl_nm, wl_m, time_steps, T_t, I_time, I_max,
                   lambda_max_nm, idx_peak, I_peak, be_wl, I_theory, I_exp,
                   result, args, ret>>

(***************************************************************************)
(* The functions applied alone                                             *)
(***************************************************************************)
\* bose_einstein(wavelength, T) on numpy floats: returns, never raises
CallBose ==
    /\ prog = "bose_einstein" /\ pc = "call"
    /\ ret' = bose_einstein(args[1], args[2])
    /\ pc' = "returned"
    /\ UNCHANGED <<prog, par, wl_nm, wl_m, time_steps, T_t, I_time, I_max,
                   lambda_max_nm, idx_peak, I_peak, be_wl, I_theory, I_exp,
                   result, report, args>>

\* rmse, mape, chi_square on numpy arrays: return, never raise
CallMetric ==
    /\ prog \in {"rmse", "mape", "chi_square"} /\ pc = "call"
    /\ ret' = CASE prog = "rmse" -> rmse(args[1], args[2])
                [] prog = "mape" -> mape(args[1], args[2])
                [] prog = "chi_square" -> chi_square(args[1], args[2])
    /\ pc' = "returned"
    /\ UNCHANGED <<prog, par, wl_nm, wl_m, time_steps, T_t, I_time, I_max,
                   lambda_max_nm, idx_peak, I_peak, be_wl, I_theory, I_exp,
                   result, report, args>>

Next ==
    \/ Grid
    \/ NewtonCooling
    \/ SpectrumRow
    \/ Normalize
    \/ Plot
    \/ Wien
    \/ PeakRow
    \/ SimData
    \/ PlotData
    \/ Fit
    \/ PlotFit
    \/ Evaluate
    \/ CallBose
    \/ CallMetric

Spec == Init /\ [][Next]_vars

\* 4D.py alone, over the slider values
InitApp == Blank /\ prog = "4D" /\ pc = "grid" /\ par \in AppParamsAll /\ args = None

NextApp ==
    \/ Grid
    \/ NewtonCooling
    \/ SpectrumRow
    \/ Normalize
    \/ Plot
    \/ Wien
    \/ PeakRow

SpecApp == InitApp /\ [][NextApp]_vars
(***************************************************************************)
(* Claims                                                                  *)
(***************************************************************************)
Degenerate(x) == IsZero(x) \/ ~IsFinite(x)
Cells(field) == {<<i, j>> : i \in 1..Len(field), j \in 1..NGrid}
Between(lo, x, hi) == FLe(FromInt(lo), x) /\ FLe(x, FromInt(hi))

C2_ZeroDenominatorIsMetricError ==
    /\ (prog = "mape" /\ pc # "call" /\ \E j \in 1..Len(args[1]) : IsZero(args[1][j]))
          => pc = "MetricUndefinedError"
    /\ (prog = "chi_square" /\ pc # "call" /\ \E j \in 1..Len(args[2]) : IsZero(args[2][j]))
          => pc = "MetricUndefinedError"

C4_OutOfDomainNeverFinite ==
    (prog = "bose_einstein" /\ pc = "returned"
        /\ (FLe(args[1], Zero(1)) \/ FLe(args[2], Zero(1))))
       => ~IsFinite(ret)

\* C5: every peak column is the lowest grid index nearest to b / T_i, is
\* the first or the last column when b / T_i lies outside the grid, and the
\* peak trace has one entry per temperature, entry i read from row i of the
\* normalised field.
C5_PeakIsNearestGridPoint ==
    (prog = "4D" /\ idx_peak # None) =>
       /\ pc = "done" => Len(I_peak) = Len(T_t)
       /\ Len(I_peak) = Len(idx_peak)
       /\ \A i \in 1..Len(idx_peak) :
             LET lam == lambda_max_nm[i]
                 idx == idx_peak[i]
                 Dist(j) == FAbs(FSub(wl_nm[j], lam))
             IN  /\ lam = FMul(FDiv(WienB, T_t[i]), MeterToNano)
                 /\ idx \in 1..NGrid
                 /\ \A j \in 1..NGrid : FLe(Dist(idx), Dist(j))
                 /\ \A j \in 1..(idx - 1) : FLt(Dist(idx), Dist(j))
                 /\ FLt(lam, wl_nm[1]) => idx = 1
                 /\ FLt(wl_nm[NGrid], lam) => idx = NGrid
                 /\ I_peak[i] = I_time[i][idx]

\* a finished peak trace with one peak inside the grid, nearest to an inner
\* or first column, and one beyond the last grid point
C5_Witness ==
    /\ prog = "4D" /\ pc = "done" /\ Len(I_peak) = NSteps
    /\ \E i \in 1..NSteps :
          FLt(wl_nm[1], lambda_max_nm[i]) /\ FLt(lambda_max_nm[i], wl_nm[NGrid])
    /\ \E i \in 1..NSteps :
          FLt(wl_nm[NGrid], lambda_max_nm[i]) /\ idx_peak[i] = NGrid

C9_EndsNear441 ==
    (prog = "pengembangan" /\ par = ScriptDefault /\ T_t # None) =>
       /\ T_t[1] = FromInt(6000)
       /\ Between(44040, FMul(T_t[NSteps], FromInt(100)), 44140)

\* C9 amended: the series starts at 6000 and ends at
\* 300 + 5700 * exp(-3.75), which is 434.05 K to a tenth of a kelvin.
C9_EndsNear434 ==
    (prog = "pengembangan" /\ par = ScriptDefault /\ T_t # None) =>
       /\ T_t[1] = FromInt(6000)
       /\ Between(43395, FMul(T_t[NSteps], FromInt(100)), 43415)

\* the series of the parameters as written, its last sample taken at 15 s
C9_Witness ==
    /\ prog = "pengembangan" /\ par = ScriptDefault /\ T_t # None
    /\ FEq(time_steps[NSteps], FromInt(15))

\* C10: for slider values, T_env <= T0, every temperature is in
\* [T_env, T0] and at least 100 K, and every wavelength is positive, so
\* bose_einstein receives only positive arguments.
C10_SlidersKeepDomain ==
    prog = "4D" =>
       /\ par.T_env <= par.T0
       /\ par.T_env >= 100
       /\ wl_m # None => \A j \in 1..NGrid : FLt(Zero(1), wl_m[j])
       /\ be_wl # None => \A j \in 1..NGrid : FLt(Zero(1), be_wl[j])
       /\ T_t # None =>
             \A i \in 1..NSteps :
                /\ Between(par.T_env, T_t[i], par.T0)
                /\ Between(100, T_t[i], 10000)

\* the whole field has been built from a series that cooled
C10_Witness ==
    /\ prog = "4D" /\ pc = "normalize" /\ Len(I_time) = NSteps
    /\ FLt(T_t[NSteps], T_t[1])

=============================================================================
